---- MODULE Spec2Model ----
(***************************************************************************)
(* Model of bin/build.py: the image-repo generator.                        *)
(*                                                                         *)
(* Text is modelled as sequences of tokens.  A token is a string standing  *)
(* for a maximal run of characters of one class: a word (characters of     *)
(* \w), a run of blanks, or a single punctuation character ("#", "=", ".", *)
(* "/", "-").  A file path, a file name, a line of a spec file and a line  *)
(* of the index are token sequences; a text file is a sequence of lines    *)
(* (each line implicitly ended by a newline).                              *)
(***************************************************************************)
EXTENDS Integers, Sequences, FiniteSets, TLC

VARIABLES
    specs,              \* generate_repo argument: list of spec paths
    repo_format,        \* generate_repo argument: 'lago' | 'virt-builder' | 'all'
    fs,                 \* the file system: path -> file content
    repo_dir_exists,    \* whether repo_dir exists as a directory
    pc,                 \* position inside generate_repo
    idx,                \* index of the loop over specs (both loops)
    spec,               \* the Spec object bound by the current loop iteration
    uncompressed_size,  \* local of prepare_disk_template / build_template
    uncompressed_infos, \* dict: compressed image path -> UncompressedTplInfo
    specs_metadata,     \* local of generate_virt_builder_repo_metadata
    error,              \* the exception that ended the run, or NoError
    load_result,        \* outcome of the latest Spec.from_spec_file call
    log,                \* history: external commands run and files written
    now,                \* the wall clock read by datetime.now()
    fs0,                \* history: the file system when the run started
    run,                \* history: 1 for the first run, 2 for a re-run
    prev_index          \* history: the index written by the previous run

vars == <<specs, repo_format, fs, repo_dir_exists, pc, idx, spec,
          uncompressed_size, uncompressed_infos, specs_metadata, error,
          load_result, log, now, fs0, run, prev_index>>

(***************************************************************************)
(* Bounds                                                                  *)
(***************************************************************************)
MaxSpecs == 2

(***************************************************************************)
(* Strings and paths                                                       *)
(***************************************************************************)
LastIndexOf(s, t) ==
    LET I == {i \in 1..Len(s) : s[i] = t}
    IN  IF I = {} THEN 0 ELSE CHOOSE i \in I : \A j \in I : j <= i

FirstIndexOf(s, t) ==
    LET I == {i \in 1..Len(s) : s[i] = t}
    IN  IF I = {} THEN 0 ELSE CHOOSE i \in I : \A j \in I : i <= j

\* os.path.join(a, b) for a relative b
join(a, b) == a \o <<"/">> \o b

\* os.path.basename(p): what follows the last slash
basename(p) == SubSeq(p, LastIndexOf(p, "/") + 1, Len(p))

\* os.path.dirname(p): what precedes the last slash
dirname(p) == SubSeq(p, 1, LastIndexOf(p, "/") - 1)

\* s.rsplit('.')[0]: no maxsplit, so the string is cut at every dot and the
\* first piece is taken
rsplit_all_head(s) ==
    IF FirstIndexOf(s, ".") = 0 THEN s
    ELSE SubSeq(s, 1, FirstIndexOf(s, ".") - 1)

\* s.rsplit('.', 1)[0]: cut at the last dot only
rsplit_one_head(s) ==
    IF LastIndexOf(s, ".") = 0 THEN s
    ELSE SubSeq(s, 1, LastIndexOf(s, ".") - 1)

\* s.endswith('.xz')
endswith_xz(s) == Len(s) >= 2 /\ s[Len(s) - 1] = "." /\ s[Len(s)] = "xz"

XzSuffix == <<".", "xz">>

(***************************************************************************)
(* Spec files                                                              *)
(***************************************************************************)
SpaceTokens == {" ", "\t"}
NonWordTokens == SpaceTokens \cup {"#", "=", ".", "/", "-", "[", "]"}

IsSpace(t) == t \in SpaceTokens
IsWord(t) == t \notin NonWordTokens

\* first position >= i of line that holds no blank (Len + 1 when none)
RECURSIVE SkipSpaces(_, _)
SkipSpaces(line, i) ==
    IF i <= Len(line) /\ IsSpace(line[i]) THEN SkipSpaces(line, i + 1) ELSE i

\* first position >= i of line that holds no word token
RECURSIVE SkipWord(_, _)
SkipWord(line, i) ==
    IF i <= Len(line) /\ IsWord(line[i]) THEN SkipWord(line, i + 1) ELSE i

\* Spec.prop_regex: '^#(?P<prop_key>\w+)\s*=\s*(?P<prop_value>.*)\s*$'
\* The key is the greedy run of word characters after the hash mark; blanks
\* around the equals sign are skipped; the greedy .* takes the rest of the
\* line, trailing blanks included.
prop_regex_match(line) ==
    LET k == SkipWord(line, 2)
        e == SkipSpaces(line, k)
    IN  /\ Len(line) >= 3
        /\ line[1] = "#"
        /\ k > 2
        /\ e <= Len(line)
        /\ line[e] = "="

prop_key(line) == SubSeq(line, 2, SkipWord(line, 2) - 1)

prop_value(line) ==
    LET e == SkipSpaces(line, SkipWord(line, 2))
    IN  SubSeq(line, SkipSpaces(line, e + 1), Len(line))

EmptyDict == [k \in {} |-> <<>>]

\* d[k] = v on a dict
DictSet(d, k, v) == [x \in DOMAIN d \cup {k} |-> IF x = k THEN v ELSE d[x]]

\* mutant: the first property line of a key wins instead of the last
RECURSIVE ReadProps_first_wins(_, _)
ReadProps_first_wins(lines, n) ==
    IF n = 0 THEN EmptyDict
    ELSE LET props == ReadProps_first_wins(lines, n - 1)
         IN  IF prop_regex_match(lines[n]) /\ prop_key(lines[n]) \notin DOMAIN props
                 THEN DictSet(props, prop_key(lines[n]), prop_value(lines[n]))
                 ELSE props

\* the loop of Spec.from_spec_file over the first n lines
RECURSIVE ReadProps(_, _)
ReadProps(lines, n) ==
    IF n = 0 THEN EmptyDict
    ELSE LET props == ReadProps(lines, n - 1)
         IN  IF prop_regex_match(lines[n])
                 THEN DictSet(props, prop_key(lines[n]), prop_value(lines[n]))
                 ELSE props

Spec_required_props == {<<"name">>}

LagoSpec_required_props ==
    Spec_required_props \cup {<<"base">>, <<"name">>, <<"distro">>}

VirtBuilderSpec_required_props ==
    Spec_required_props \cup
        {<<"base">>, <<"osinfo">>, <<"arch">>, <<"expand">>}

AllSpec_required_props ==
    LagoSpec_required_props \cup VirtBuilderSpec_required_props

SpecClasses == {"LagoSpec", "VirtBuilderSpec", "AllSpec"}

\* mutant: AllSpec takes the lago set alone instead of the union
required_props_no_union(cls) ==
    CASE cls = "LagoSpec" -> LagoSpec_required_props
      [] cls = "VirtBuilderSpec" -> VirtBuilderSpec_required_props
      [] cls = "AllSpec" -> LagoSpec_required_props
      [] OTHER -> Spec_required_props

required_props(cls) ==
    CASE cls = "LagoSpec" -> LagoSpec_required_props
      [] cls = "VirtBuilderSpec" -> VirtBuilderSpec_required_props
      [] cls = "AllSpec" -> AllSpec_required_props
      [] OTHER -> Spec_required_props

NoError == [kind |-> "none", path |-> <<>>, props |-> {}]
None == [props |-> EmptyDict, commands_file |-> <<>>]

\* Spec.verify: raises Exception('Malformed spec file %s, missing props %s')
\* when a required property is missing; the message is formatted from
\* commands_file and required_props
verify(cls, props, commands_file) ==
    LET missing_props == required_props(cls) \ DOMAIN props
    IN  IF missing_props # {}
            THEN [kind |-> "MalformedSpec", path |-> commands_file,
                  props |-> required_props(cls)]
            ELSE NoError

\* the text lines open(spec_file).readlines() yields.  Files that are not
\* spec text (images, JSON side files, hashes) hold no property line.
readlines(content) == IF content.kind = "spec" THEN content.data ELSE <<>>

\* Spec.from_spec_file as a function of the file system: the error raised
\* (NoError when none) and the Spec returned
from_spec_file(cls, spec_file, files) ==
    IF spec_file \notin DOMAIN files
        THEN [error |-> [kind |-> "IOError", path |-> spec_file, props |-> {}],
              spec |-> None]
    ELSE LET lines == readlines(files[spec_file])
             props == ReadProps(lines, Len(lines))
             err == verify(cls, props, spec_file)
         IN  [error |-> err,
              spec |-> IF err = NoError
                           THEN [props |-> props, commands_file |-> spec_file]
                           ELSE None]

(***************************************************************************)
(* File contents.  A file is [kind, data].  Images and the values derived  *)
(* from them (sizes, digests) are symbolic token sequences, so that two    *)
(* values are equal exactly when they were computed from the same bytes.   *)
(***************************************************************************)
Wrap(f, d) == <<f, "(">> \o d \o <<")">>

SpecFile(lines) == [kind |-> "spec", data |-> lines]

\* what virt-builder writes to --output for a commands file
BuiltImage(commands_file) ==
    [kind |-> "image", data |-> Wrap("qcow2", commands_file)]

\* what a failed virt-builder may leave at --output
PartialImage(commands_file) ==
    [kind |-> "image", data |-> Wrap("partial", commands_file)]

\* os.stat(path).st_size
st_size(content) == Wrap("size", content.data)

\* get_hash(file_path, checksum): the hex digest of the file's bytes
get_hash(content, checksum) == Wrap(checksum, content.data)

FilePut(files, p, c) == [x \in DOMAIN files \cup {p} |-> IF x = p THEN c ELSE files[x]]
FileDel(files, p) == [x \in DOMAIN files \ {p} |-> files[x]]

(***************************************************************************)
(* Inputs                                                                  *)
(***************************************************************************)
repo_dir == <<"out">>
repo_name == <<"lago">>
base_url == <<"http", ":", "/", "/", "repo">>

SpecPaths == <<
    join(<<"in">>, <<"a">>),
    join(<<"in">>, <<"a", ".", "b">>),
    join(<<"in2">>, <<"a">>),
    join(repo_dir, <<"a">>) >>

\* every property of both formats; property lines interleaved with command
\* lines, blanks around an equals sign, and the key name given twice
FullSpecLines == <<
    <<"#", "name", "=", "el7">>,
    <<"#", "base", " ", "=", " ", "centos", "-", "7">>,
    <<"install", " ", "vim">>,
    <<"#", "distro", "=", "el7">>,
    <<"#", "osinfo", "=", "centos7">>,
    <<"#", "arch", "=", "x86_64">>,
    <<"run", "-", "command", " ", "true">>,
    <<"#", "expand", "=", "/", "dev", "/", "sda3">>,
    <<"#", "name", "=", "el7", "-", "base">> >>

\* the lago properties only
LagoSpecLines == <<
    <<"#", "name", "=", "fc23">>,
    <<"#", "base", "=", "fedora", "-", "23">>,
    <<"install", " ", "vim">>,
    <<"#", "distro", "=", "fc23">> >>

\* the virt-builder properties only, after a command line and a comment
VirtBuilderSpecLines == <<
    <<"update">>,
    <<"#", "note">>,
    <<"#", "name", "=", "fedora30">>,
    <<"#", "base", "=", "fedora", "-", "30">>,
    <<"#", "osinfo", "=", "fedora30">>,
    <<"#", "arch", "=", "x86_64">>,
    <<"#", "expand", "=", "/", "dev", "/", "sda3">> >>

\* no base: malformed for every format
BadSpecLines == <<
    <<"#", "name", "=", "broken">>,
    <<"install", " ", "vim">> >>

Variants == <<FullSpecLines, LagoSpecLines, VirtBuilderSpecLines, BadSpecLines>>

\* the ways of giving each path of a set one of the variants as content
Layouts(paths) == [paths -> {SpecFile(Variants[i]) : i \in 1..Len(Variants)}]

Formats == {"lago", "virt-builder", "all"}

\* files left in repo_dir by earlier runs
OldFiles == {join(repo_dir, <<"old", ".", "img", ".", "xz">>),
             join(repo_dir, <<"notes">>)}
OldFile == [kind |-> "old", data |-> <<"old">>]

\* sequences over 1..n of length at most m
RECURSIVE SeqsUpTo(_, _)
SeqsUpTo(S, m) ==
    IF m = 0 THEN {<<>>}
    ELSE LET shorter == SeqsUpTo(S, m - 1)
         IN  shorter \cup {Append(q, x) : q \in {r \in shorter : Len(r) = m - 1}, x \in S}

Range(q) == {q[i] : i \in 1..Len(q)}

(***************************************************************************)
(* The clock: local wall-clock time as datetime.now() returns it           *)
(***************************************************************************)
IsLeap(y) == (y % 4 = 0 /\ y % 100 # 0) \/ y % 400 = 0

DaysInMonth(y, m) ==
    IF m = 2 THEN (IF IsLeap(y) THEN 29 ELSE 28)
    ELSE IF m \in {4, 6, 9, 11} THEN 30 ELSE 31

\* the clock one second later
tick(t) ==
    IF t.second < 59 THEN [t EXCEPT !.second = @ + 1]
    ELSE IF t.minute < 59 THEN [t EXCEPT !.second = 0, !.minute = @ + 1]
    ELSE IF t.hour < 23 THEN [t EXCEPT !.second = 0, !.minute = 0, !.hour = @ + 1]
    ELSE IF t.day < DaysInMonth(t.year, t.month)
        THEN [t EXCEPT !.second = 0, !.minute = 0, !.hour = 0, !.day = @ + 1]
    ELSE IF t.month < 12
        THEN [t EXCEPT !.second = 0, !.minute = 0, !.hour = 0, !.day = 1,
                       !.month = @ + 1]
    ELSE [t EXCEPT !.second = 0, !.minute = 0, !.hour = 0, !.day = 1,
                   !.month = 1, !.year = @ + 1]

Time(y, mo, d, h, mi, s) ==
    [year |-> y, month |-> mo, day |-> d, hour |-> h, minute |-> mi, second |-> s]

Epoch == Time(2016, 3, 1, 10, 0, 0)

StartTimes == {Time(2016, 12, 31, 23, 59, 58),
               Time(2016, 2, 28, 23, 59, 59),
               Time(2015, 6, 15, 12, 59, 58)}

\* two decimal digits, zero padded
TwoDigits(n) == IF n < 10 THEN "0" \o ToString(n) ELSE ToString(n)

\* mutant: %I (12-hour clock) in place of %H
strftime_12h(t) ==
    <<TwoDigits(t.year \div 100), TwoDigits(t.year % 100), TwoDigits(t.month),
      TwoDigits(t.day), TwoDigits(((t.hour + 11) % 12) + 1),
      TwoDigits(t.minute), TwoDigits(t.second)>>

\* datetime.strftime('%Y%m%d%H%M%S'): fourteen digits, here as seven tokens
\* of two digits (years 1000..9999)
strftime(t) ==
    <<TwoDigits(t.year \div 100), TwoDigits(t.year % 100), TwoDigits(t.month),
      TwoDigits(t.day), TwoDigits(t.hour), TwoDigits(t.minute),
      TwoDigits(t.second)>>

\* '%d' % int(...): the same digits, as the year has no leading zero
revision(t) == strftime(t)

(***************************************************************************)
(* Helpers of generate_repo                                                *)
(***************************************************************************)
Event(op, path, ok) == [op |-> op, path |-> path, ok |-> ok]

Raised(kind, path) == [kind |-> kind, path |-> path, props |-> {}]

NoLoad ==
    [spec_file |-> <<>>, cls |-> "", exists |-> FALSE, lines |-> <<>>,
     error |-> NoError, spec |-> None]

\* the record kept of one Spec.from_spec_file call
LoadRecord(cls, spec_file, files) ==
    LET r == from_spec_file(cls, spec_file, files)
    IN  [spec_file |-> spec_file, cls |-> cls,
         exists |-> spec_file \in DOMAIN files,
         lines |-> IF spec_file \in DOMAIN files
                       THEN readlines(files[spec_file]) ELSE <<>>,
         error |-> r.error, spec |-> r.spec]

\* the class generate_repo selects for a format
spec_cls(fmt) ==
    IF fmt = "lago" THEN "LagoSpec"
    ELSE IF fmt = "virt-builder" THEN "VirtBuilderSpec"
    ELSE "AllSpec"

\* mutant: 'all' is left out of the list
includes_lago_only(fmt) == fmt = "lago"

\* repo_format in ['lago', 'all']
includes_lago(fmt) == fmt \in {"lago", "all"}

\* repo_format in ['virt-builder', 'all']
includes_virt_builder(fmt) == fmt \in {"virt-builder", "all"}

image_path_from_spec(dst_dir, sp, compressed) ==
    join(dst_dir,
         basename(sp.commands_file) \o (IF compressed THEN XzSuffix ELSE <<>>))

\* mutant: the exit status is ignored
call_never_raises(return_code) == FALSE

\* call(command): whether it raises RuntimeError for an exit status
call_raises(return_code) == return_code # 0

ReturnCodes == {0, 1}

\* generate_lago_image_metadata: the file system after the two side files
\* are written
generate_lago_image_metadata(files, sp, image_path, uncompressed_info) ==
    LET image_dir == dirname(image_path)
        metadata_path ==
            join(image_dir, basename(sp.commands_file) \o <<".", "metadata">>)
        hash_path ==
            join(image_dir, basename(sp.commands_file) \o <<".", "hash">>)
    IN  FilePut(FilePut(files, metadata_path,
                        [kind |-> "metadata", data |-> sp.props]),
                hash_path,
                [kind |-> "hash", data |-> uncompressed_info.checksum_sha1])

lago_side_files(sp, image_path) ==
    <<join(dirname(image_path), basename(sp.commands_file) \o <<".", "metadata">>),
      join(dirname(image_path), basename(sp.commands_file) \o <<".", "hash">>)>>

\* the files os.walk(repo_dir).next() lists: plain files directly in repo_dir
walk_files(files, dir) == {basename(p) : p \in {q \in DOMAIN files : dirname(q) = dir}}

\* mutant: the file name is cut at its first dot
template_name_first_dot(file_name) == rsplit_all_head(file_name)

\* the name generate_lago_repo_metadata gives the template of an .xz file
template_name(file_name) == rsplit_one_head(file_name)

\* generate_lago_repo_metadata: the metadata object dumped to repo.metadata
lago_repo_metadata(files, dir, name, url) ==
    LET xz == {f \in walk_files(files, dir) : endswith_xz(f)}
        templates ==
            [n \in {template_name(f) : f \in xz} |->
                LET file_name == CHOOSE f \in xz : template_name(f) = n
                IN  [source |-> name,
                     handle |-> rsplit_one_head(file_name),
                     timestamp |-> Wrap("mtime", join(dir, file_name))]]
    IN  [name |-> name,
         templates |-> templates,
         sources |-> [baseurl |-> url, type |-> "http"]]

\* a set as a list, in the arbitrary order dict.items() gives
RECURSIVE items(_)
items(d) ==
    IF DOMAIN d = {} THEN <<>>
    ELSE LET k == CHOOSE x \in DOMAIN d : TRUE
         IN  <<<<k, d[k]>>>> \o items([x \in DOMAIN d \ {k} |-> d[x]])

\* the section name of an image in the index
section_name(image_path) == rsplit_all_head(basename(image_path))

\* get_virt_builder_image_metadata: the lines of one block; t is the clock
\* as datetime.now() reads it
get_virt_builder_image_metadata(sp, image_path, uncompressed_info, files, t) ==
    LET its == items(sp.props)
    IN  << <<"[", "lago", "-">> \o section_name(image_path) \o <<"]">>,
           <<"file", "=">> \o basename(image_path),
           <<"format", "=", "qcow2">>,
           <<"compressed_size", "=">> \o st_size(files[image_path]),
           <<"size", "=">> \o uncompressed_info.size,
           <<"uncompressed_checksum", "=">> \o uncompressed_info.checksum_sha512,
           <<"checksum", "=">> \o get_hash(files[image_path], "sha512"),
           <<"revision", "=">> \o revision(t) >>
        \o [i \in 1..Len(its) |-> its[i][1] \o <<"=">> \o its[i][2]]

\* A string holding newlines is the sequence of its pieces between them.
\* '\n\n'.join(blocks), each block being '\n'.join(lines)
RECURSIVE join_blocks(_)
join_blocks(blocks) ==
    IF blocks = <<>> THEN << <<>> >>
    ELSE IF Len(blocks) = 1 THEN blocks[1]
    ELSE blocks[1] \o << <<>> >> \o join_blocks(Tail(blocks))

\* '\n\n'.join(specs_metadata) + '\n': the added newline ends the last
\* piece and opens an empty one
index_text(blocks) == join_blocks(blocks) \o << <<>> >>

IndexPath == join(repo_dir, <<"index">>)
RepoMetadataPath == join(repo_dir, <<"repo", ".", "metadata">>)

(***************************************************************************)
(* Initial states                                                          *)
(***************************************************************************)
InitFrom(paths, formats, times, olds) ==
    /\ specs \in SeqsUpTo(paths, MaxSpecs)
    /\ repo_format \in formats
    /\ \E layout \in Layouts(Range(specs)), old \in olds :
          fs = [p \in Range(specs) \cup old |->
                   IF p \in old THEN OldFile ELSE layout[p]]
    /\ repo_dir_exists \in
          IF \E p \in DOMAIN fs : dirname(p) = repo_dir THEN {TRUE} ELSE BOOLEAN
    /\ pc = "start"
    /\ idx = 1
    /\ spec = None
    /\ uncompressed_size = <<>>
    /\ uncompressed_infos = EmptyDict
    /\ specs_metadata = <<>>
    /\ error = NoError
    /\ load_result = NoLoad
    /\ log = <<>>
    /\ now \in times
    /\ fs0 = fs
    /\ run = 1
    /\ prev_index = <<>>

Init == InitFrom(Range(SpecPaths), Formats, {Epoch}, {{}, OldFiles})

(***************************************************************************)
(* generate_repo, step by step                                             *)
(***************************************************************************)
\* where generate_repo goes after the loop over the specs
AfterLagoRepo(fmt) == IF includes_virt_builder(fmt) THEN "vb_spec" ELSE "done"
AfterLoop(fmt) == IF includes_lago(fmt) THEN "lago_repo" ELSE AfterLagoRepo(fmt)

\* os.makedirs(repo_dir) when missing; uncompressed_infos = {}
Start ==
    /\ pc = "start"
    /\ repo_dir_exists' = TRUE
    /\ uncompressed_infos' = EmptyDict
    /\ specs_metadata' = <<>>
    /\ idx' = 1
    /\ pc' = IF specs = <<>> THEN AfterLoop(repo_format) ELSE "load"
    /\ UNCHANGED <<specs, repo_format, fs, spec, uncompressed_size, error,
                   load_result, log, now, fs0, run, prev_index>>

\* spec = spec_cls.from_spec_file(spec)
LoadSpec ==
    /\ pc = "load"
    /\ LET r == LoadRecord(spec_cls(repo_format), specs[idx], fs)
       IN  /\ load_result' = r
           /\ log' = Append(log, Event("from_spec_file", specs[idx], r.error = NoError))
           /\ error' = r.error
           /\ spec' = r.spec
           /\ pc' = IF r.error # NoError THEN "aborted" ELSE "virt-builder"
    /\ UNCHANGED <<specs, repo_format, fs, repo_dir_exists, idx,
                   uncompressed_size, uncompressed_infos, specs_metadata, now,
                   fs0, run, prev_index>>

\* build_disk_image: virt-builder --commands-from-file=... --output=dst base
BuildDiskImage ==
    /\ pc = "virt-builder"
    /\ LET dst == image_path_from_spec(repo_dir, spec, FALSE)
       IN  IF <<"base">> \notin DOMAIN spec.props
           THEN /\ pc' = "aborted"
                /\ error' = Raised("KeyError", spec.commands_file)
                /\ UNCHANGED <<fs, log>>
           ELSE \E return_code \in ReturnCodes, partial \in BOOLEAN :
                /\ return_code = 0 => ~partial
                /\ fs' = IF return_code = 0
                             THEN FilePut(fs, dst, BuiltImage(spec.commands_file))
                         ELSE IF partial
                             THEN FilePut(fs, dst, PartialImage(spec.commands_file))
                         ELSE fs
                /\ log' = Append(log, Event("virt-builder", dst, return_code = 0))
                /\ IF call_raises(return_code)
                       THEN pc' = "aborted" /\ error' = Raised("RuntimeError", dst)
                       ELSE pc' = "virt-sysprep" /\ error' = error
    /\ UNCHANGED <<specs, repo_format, repo_dir_exists, idx, spec,
                   uncompressed_size, uncompressed_infos, specs_metadata,
                   load_result, now, fs0, run, prev_index>>

\* an external tool that rewrites the image in place
InPlaceTool(at, tool, next) ==
    /\ pc = at
    /\ LET dst == image_path_from_spec(repo_dir, spec, FALSE)
       IN  \E return_code \in ReturnCodes :
           /\ dst \notin DOMAIN fs => return_code # 0
           /\ fs' = IF return_code = 0
                        THEN FilePut(fs, dst, [kind |-> "image",
                                               data |-> Wrap(tool, fs[dst].data)])
                        ELSE fs
           /\ log' = Append(log, Event(tool, dst, return_code = 0))
           /\ IF call_raises(return_code)
                  THEN pc' = "aborted" /\ error' = Raised("RuntimeError", dst)
                  ELSE pc' = next /\ error' = error
    /\ UNCHANGED <<specs, repo_format, repo_dir_exists, idx, spec,
                   uncompressed_size, uncompressed_infos, specs_metadata,
                   load_result, now, fs0, run, prev_index>>

\* prepare_disk_template, first command: virt-sysprep --add=disk_image
VirtSysprep == InPlaceTool("virt-sysprep", "virt-sysprep", "virt-sparsify")

\* prepare_disk_template, second command: virt-sparsify --in-place
VirtSparsify == InPlaceTool("virt-sparsify", "virt-sparsify", "xz")

\* prepare_disk_template, the rest: os.stat(disk_image).st_size, then
\* xz --compress --keep --force disk_image
Compress ==
    /\ pc = "xz"
    /\ LET dst == image_path_from_spec(repo_dir, spec, FALSE)
       IN  IF dst \notin DOMAIN fs
           THEN /\ pc' = "aborted"
                /\ error' = Raised("OSError", dst)
                /\ UNCHANGED <<fs, log, uncompressed_size>>
           ELSE \E return_code \in ReturnCodes :
                /\ uncompressed_size' = st_size(fs[dst])
                /\ fs' = IF return_code = 0
                             THEN FilePut(fs, dst \o XzSuffix,
                                          [kind |-> "xz",
                                           data |-> Wrap("xz", fs[dst].data)])
                             ELSE fs
                /\ log' = Append(log, Event("xz", dst, return_code = 0))
                /\ IF call_raises(return_code)
                       THEN pc' = "aborted" /\ error' = Raised("RuntimeError", dst)
                       ELSE pc' = "finish" /\ error' = error
    /\ UNCHANGED <<specs, repo_format, repo_dir_exists, idx, spec,
                   uncompressed_infos, specs_metadata, load_result, now, fs0,
                   run, prev_index>>

\* mutant: the temporary image is kept
keep_temporary(files, dst_template) == files

\* build_template after prepare_disk_template: the file system once the
\* temporary image is unlinked
unlink_temporary(files, dst_template) == FileDel(files, dst_template)

\* the rest of the loop body: both digests, os.unlink(dst_template),
\* uncompressed_infos.update(...), and the lago side files when asked for
FinishImage ==
    /\ pc = "finish"
    /\ LET dst == image_path_from_spec(repo_dir, spec, FALSE)
       IN  IF dst \notin DOMAIN fs
           THEN /\ pc' = "aborted"
                /\ error' = Raised("IOError", dst)
                /\ UNCHANGED <<fs, log, uncompressed_infos, idx>>
           ELSE LET uncompressed_info ==
                        [size |-> uncompressed_size,
                         checksum_sha1 |-> get_hash(fs[dst], "sha1"),
                         checksum_sha512 |-> get_hash(fs[dst], "sha512")]
                    fs1 == unlink_temporary(fs, dst)
                    compressed_image_path == dst \o XzSuffix
                    image_path == image_path_from_spec(repo_dir, spec, FALSE)
                    side == lago_side_files(spec, image_path)
                IN  /\ uncompressed_infos' =
                          DictSet(uncompressed_infos, compressed_image_path,
                                  uncompressed_info)
                    /\ IF includes_lago(repo_format)
                           THEN /\ fs' = generate_lago_image_metadata(
                                             fs1, spec, image_path, uncompressed_info)
                                /\ log' = log \o <<Event("unlink", dst, TRUE),
                                                   Event("write", side[1], TRUE),
                                                   Event("write", side[2], TRUE)>>
                           ELSE /\ fs' = fs1
                                /\ log' = Append(log, Event("unlink", dst, TRUE))
                    /\ error' = error
                    /\ IF idx < Len(specs)
                           THEN idx' = idx + 1 /\ pc' = "load"
                           ELSE idx' = 1 /\ pc' = AfterLoop(repo_format)
    /\ UNCHANGED <<specs, repo_format, repo_dir_exists, spec, uncompressed_size,
                   specs_metadata, load_result, now, fs0, run, prev_index>>

\* generate_lago_repo_metadata: scan repo_dir, write repo.metadata
GenerateLagoRepoMetadata ==
    /\ pc = "lago_repo"
    /\ fs' = FilePut(fs, RepoMetadataPath,
                     [kind |-> "repo.metadata",
                      data |-> lago_repo_metadata(fs, repo_dir, repo_name, base_url)])
    /\ log' = Append(log, Event("write", RepoMetadataPath, TRUE))
    /\ idx' = 1
    /\ pc' = AfterLagoRepo(repo_format)
    /\ UNCHANGED <<specs, repo_format, repo_dir_exists, spec, uncompressed_size,
                   uncompressed_infos, specs_metadata, error, load_result, now,
                   fs0, run, prev_index>>

\* one iteration of the loop of generate_virt_builder_repo_metadata; the
\* clock may have moved on by a second since it was last read
VirtBuilderImageMetadata ==
    /\ pc = "vb_spec"
    /\ idx <= Len(specs)
    /\ LET r == LoadRecord("VirtBuilderSpec", specs[idx], fs)
           image_path == image_path_from_spec(repo_dir, r.spec, TRUE)
       IN  /\ load_result' = r
           /\ log' = Append(log, Event("from_spec_file", specs[idx], r.error = NoError))
           /\ \E t \in {now, tick(now)} :
              /\ now' = t
              /\ IF r.error # NoError
                 THEN /\ pc' = "aborted" /\ error' = r.error
                      /\ UNCHANGED <<specs_metadata, idx>>
                 ELSE IF image_path \notin DOMAIN uncompressed_infos
                 THEN /\ pc' = "aborted" /\ error' = Raised("KeyError", image_path)
                      /\ UNCHANGED <<specs_metadata, idx>>
                 ELSE IF image_path \notin DOMAIN fs
                 THEN /\ pc' = "aborted" /\ error' = Raised("OSError", image_path)
                      /\ UNCHANGED <<specs_metadata, idx>>
                 ELSE /\ specs_metadata' =
                            Append(specs_metadata,
                                   get_virt_builder_image_metadata(
                                       r.spec, image_path,
                                       uncompressed_infos[image_path], fs, t))
                      /\ idx' = idx + 1
                      /\ pc' = pc /\ error' = error
    /\ UNCHANGED <<specs, repo_format, fs, repo_dir_exists, spec,
                   uncompressed_size, uncompressed_infos, fs0, run, prev_index>>

\* fd.write('\n\n'.join(specs_metadata) + '\n') on repo_dir/index
WriteIndex ==
    /\ pc = "vb_spec"
    /\ idx > Len(specs)
    /\ fs' = FilePut(fs, IndexPath,
                     [kind |-> "index", data |-> index_text(specs_metadata)])
    /\ log' = Append(log, Event("write", IndexPath, TRUE))
    /\ pc' = "done"
    /\ UNCHANGED <<specs, repo_format, repo_dir_exists, idx, spec,
                   uncompressed_size, uncompressed_infos, specs_metadata, error,
                   load_result, now, fs0, run, prev_index>>

Next ==
    \/ Start
    \/ LoadSpec
    \/ BuildDiskImage
    \/ VirtSysprep
    \/ VirtSparsify
    \/ Compress
    \/ FinishImage
    \/ GenerateLagoRepoMetadata
    \/ VirtBuilderImageMetadata
    \/ WriteIndex

Spec == Init /\ [][Next]_vars

(***************************************************************************)
(* Two runs over the same specs: once a run that wrote the index is done,  *)
(* the tool is started again, one or two seconds of the clock later, on    *)
(* the file system the first run left.                                     *)
(***************************************************************************)
InitRev ==
    InitFrom({SpecPaths[1], SpecPaths[2]}, {"virt-builder", "all"}, StartTimes, {{}})

Rerun ==
    /\ pc = "done"
    /\ run = 1
    /\ IndexPath \in DOMAIN fs
    /\ run' = 2
    /\ prev_index' = fs[IndexPath].data
    /\ \E t \in {tick(now), tick(tick(now))} : now' = t
    /\ pc' = "start"
    /\ idx' = 1
    /\ spec' = None
    /\ uncompressed_size' = <<>>
    /\ uncompressed_infos' = EmptyDict
    /\ specs_metadata' = <<>>
    /\ load_result' = NoLoad
    /\ log' = <<>>
    /\ fs0' = fs
    /\ UNCHANGED <<specs, repo_format, fs, repo_dir_exists, error>>

NextRev == Next \/ Rerun

SpecRev == InitRev /\ [][NextRev]_vars

(***************************************************************************)
(* Reading the outputs back                                                *)
(***************************************************************************)
\* whether a written text ends with a newline
EndsWithNewline(text) == Len(text) >= 1 /\ text[Len(text)] = <<>>

\* the lines of a text that ends with a newline
TextLines(text) == SubSeq(text, 1, Len(text) - 1)

\* the lines cut at every blank line: k blank lines give k + 1 pieces
RECURSIVE SplitAtBlank(_)
SplitAtBlank(lines) ==
    IF lines = <<>> THEN << <<>> >>
    ELSE LET rest == SplitAtBlank(Tail(lines))
         IN  IF Head(lines) = <<>> THEN << <<>> >> \o rest
             ELSE << <<Head(lines)>> \o rest[1] >> \o Tail(rest)

\* the blocks of an index text: its non-empty pieces
BlocksOf(text) == SelectSeq(SplitAtBlank(TextLines(text)), LAMBDA b : b # <<>>)

BlankLines(text) == Cardinality({i \in 1..Len(TextLines(text)) : TextLines(text)[i] = <<>>})

Contains(block, line) == \E i \in 1..Len(block) : block[i] = line

\* a line of the form #key=value for the given key (a single word), blanks
\* allowed around the equals sign
IsPropertyLineFor(line, key) ==
    /\ Len(line) >= 3
    /\ line[1] = "#"
    /\ line[2] = key
    /\ \E e \in 3..Len(line) :
          /\ line[e] = "="
          /\ \A j \in 3..(e - 1) : line[j] \in {" ", "\t"}

PresentIn(lines, key) == \E i \in 1..Len(lines) : IsPropertyLineFor(lines[i], key)

\* the required properties as the formats document them
DocumentedRequired(cls) ==
    CASE cls = "LagoSpec" -> {"name", "base", "distro"}
      [] cls = "VirtBuilderSpec" -> {"name", "base", "osinfo", "arch", "expand"}
      [] cls = "AllSpec" -> {"name", "base", "distro", "osinfo", "arch", "expand"}

PolicyOf(fmt) ==
    CASE fmt = "lago" -> "LagoSpec"
      [] fmt = "virt-builder" -> "VirtBuilderSpec"
      [] fmt = "all" -> "AllSpec"

Loaded == load_result.spec_file # <<>> /\ load_result.exists

AllRequiredPresent ==
    \A k \in DocumentedRequired(load_result.cls) : PresentIn(load_result.lines, k)

(***************************************************************************)
(* C1: loading a spec file under the policy of the format succeeds exactly *)
(* when every required property of that policy (lago: name, base, distro;  *)
(* virt-builder: name, base, osinfo, arch, expand; all: both) is present   *)
(* in the file; otherwise it fails with the malformed-spec error naming    *)
(* the spec's path, no Spec is returned and the run is over.               *)
(***************************************************************************)
C1_LoadIffRequiredPresent ==
    /\ Loaded =>
          /\ (load_result.error = NoError) <=> AllRequiredPresent
          /\ ~AllRequiredPresent =>
                /\ load_result.error.kind = "MalformedSpec"
                /\ load_result.error.path = load_result.spec_file
                /\ load_result.spec = None
                /\ pc = "aborted"
                /\ error = load_result.error
    /\ pc \in {"virt-builder", "virt-sysprep", "virt-sparsify", "xz", "finish"} =>
          /\ load_result.cls = PolicyOf(repo_format)
          /\ load_result.error = NoError
          /\ spec = load_result.spec
          /\ spec.commands_file = specs[idx]

C1_Witness ==
    /\ Loaded
    /\ load_result.cls = "AllSpec"
    /\ load_result.error.kind = "MalformedSpec"
    /\ PresentIn(load_result.lines, "osinfo")
    /\ ~PresentIn(load_result.lines, "distro")
    /\ pc = "aborted"

(***************************************************************************)
(* C2: when loading fails for absent required properties, the properties   *)
(* the error carries are exactly the required properties of the selected   *)
(* format that are absent from the file.                                   *)
(***************************************************************************)
C2_ErrorNamesMissingProps ==
    (Loaded /\ load_result.error.kind = "MalformedSpec") =>
        load_result.error.props =
            {<<k>> : k \in {r \in DocumentedRequired(load_result.cls) :
                               ~PresentIn(load_result.lines, r)}}

(***************************************************************************)
(* C3: the first failure (a spec that fails to load, an external command   *)
(* that exits non-zero) ends the run: it is the last thing the run did, no *)
(* step is possible afterwards, and repo.metadata and index are written    *)
(* only after every spec of the list was loaded and built with no failure. *)
(***************************************************************************)
CountBefore(i, op) == Cardinality({j \in 1..(i - 1) : log[j].op = op /\ log[j].ok})

C3_FirstFailureAborts ==
    /\ \A i \in 1..Len(log) : ~log[i].ok => i = Len(log)
    /\ (\E i \in 1..Len(log) : ~log[i].ok) => pc = "aborted"
    /\ pc = "aborted" => error # NoError /\ ~ENABLED Next
    /\ \A i \in 1..Len(log) :
          (log[i].op = "write" /\ log[i].path \in {RepoMetadataPath, IndexPath}) =>
              /\ \A j \in 1..(i - 1) : log[j].ok
              /\ CountBefore(i, "from_spec_file") >= Len(specs)
              /\ CountBefore(i, "virt-builder") = Len(specs)
              /\ CountBefore(i, "xz") = Len(specs)
              /\ CountBefore(i, "unlink") = Len(specs)

C3_Witness ==
    /\ pc = "aborted"
    /\ repo_format = "all"
    /\ Len(specs) = 2
    /\ idx = 1
    /\ log # <<>>
    /\ log[Len(log)] = Event("virt-sparsify", join(repo_dir, basename(specs[1])), FALSE)
    /\ RepoMetadataPath \notin DOMAIN fs
    /\ IndexPath \notin DOMAIN fs

(***************************************************************************)
(* C4: after a successful lago or all run the keys of templates in         *)
(* repo.metadata are exactly the names, less the trailing .xz, of the      *)
(* files ending in .xz directly in the output directory (none: an empty    *)
(* mapping, still written).                                                *)
(***************************************************************************)
DirPrefix == repo_dir \o <<"/">>

DirectlyInRepoDir(p) ==
    /\ Len(p) > Len(DirPrefix)
    /\ SubSeq(p, 1, Len(DirPrefix)) = DirPrefix
    /\ \A i \in (Len(DirPrefix) + 1)..Len(p) : p[i] # "/"

FileNameOf(p) == SubSeq(p, Len(DirPrefix) + 1, Len(p))

XzFileNames ==
    {FileNameOf(p) : p \in {q \in DOMAIN fs :
        /\ DirectlyInRepoDir(q)
        /\ Len(FileNameOf(q)) >= 2
        /\ SubSeq(FileNameOf(q), Len(FileNameOf(q)) - 1, Len(FileNameOf(q))) = <<".", "xz">>}}

WithoutXz(f) == SubSeq(f, 1, Len(f) - 2)

C4_TemplatesAreXzFiles ==
    (pc = "done" /\ repo_format \in {"lago", "all"}) =>
        /\ RepoMetadataPath \in DOMAIN fs
        /\ fs[RepoMetadataPath].kind = "repo.metadata"
        /\ DOMAIN fs[RepoMetadataPath].data.templates = {WithoutXz(f) : f \in XzFileNames}

C4_Witness ==
    /\ pc = "done"
    /\ repo_format = "lago"
    /\ RepoMetadataPath \in DOMAIN fs
    /\ {<<"a", ".", "b">>, <<"old", ".", "img">>, <<"a">>}
          \subseteq DOMAIN fs[RepoMetadataPath].data.templates

(***************************************************************************)
(* C5: after a successful virt-builder or all run over n spec paths the    *)
(* index holds exactly n blocks, joined by one blank line and ended by a   *)
(* newline, and the block of a spec holds a key=value line for the         *)
(* property lines of its file, wherever they stand in the file.            *)
(***************************************************************************)
IndexBlocks == BlocksOf(fs[IndexPath].data)

SpecLinesAt(i) == fs0[specs[i]].data

PropertyLines(lines) == {j \in 1..Len(lines) : prop_regex_match(lines[j])}

IsLastOfKey(lines, j) ==
    \A m \in PropertyLines(lines) : prop_key(lines[m]) = prop_key(lines[j]) => m <= j

IndexShape ==
    /\ IndexPath \in DOMAIN fs
    /\ fs[IndexPath].kind = "index"
    /\ EndsWithNewline(fs[IndexPath].data)
    /\ Len(IndexBlocks) = Len(specs)
    /\ BlankLines(fs[IndexPath].data) = IF specs = <<>> THEN 1 ELSE Len(specs) - 1

VirtBuilderDone == pc = "done" /\ repo_format \in {"virt-builder", "all"}

\* C5 as stated: a key=value line for every property line of the file
C5_EveryPropertyLine ==
    VirtBuilderDone =>
        /\ IndexShape
        /\ \A i \in 1..Len(specs) :
              \A j \in PropertyLines(SpecLinesAt(i)) :
                  Contains(IndexBlocks[i],
                           prop_key(SpecLinesAt(i)[j]) \o <<"=">>
                               \o prop_value(SpecLinesAt(i)[j]))

\* C5 amended: a key=value line for the last property line of each key (the
\* value is the text after the equals sign, less the blanks that lead it),
\* and no other line than the eight fixed ones
C5_LastPropertyLinePerKey ==
    VirtBuilderDone =>
        /\ IndexShape
        /\ \A i \in 1..Len(specs) :
              LET lines == SpecLinesAt(i)
              IN  /\ \A j \in PropertyLines(lines) :
                        IsLastOfKey(lines, j) =>
                            Contains(IndexBlocks[i],
                                     prop_key(lines[j]) \o <<"=">> \o prop_value(lines[j]))
                  /\ Len(IndexBlocks[i]) =
                        8 + Cardinality({prop_key(lines[j]) : j \in PropertyLines(lines)})

C5_Witness ==
    /\ VirtBuilderDone
    /\ Len(specs) = 2
    /\ IndexPath \in DOMAIN fs
    /\ SpecLinesAt(1) = FullSpecLines
    /\ SpecLinesAt(2) = VirtBuilderSpecLines
    /\ Contains(IndexBlocks[1], <<"name", "=", "el7", "-", "base">>)
    /\ Contains(IndexBlocks[1], <<"base", "=", "centos", "-", "7">>)

(***************************************************************************)
(* C6: at most one uncompressed image of the run exists at any time; it is *)
(* gone before the next spec is loaded, so none is left after a successful *)
(* run.                                                                    *)
(***************************************************************************)
UncompressedImages == {p \in DOMAIN fs : fs[p].kind = "image"}

C6_OneUncompressedImage ==
    /\ Cardinality(UncompressedImages) <= 1
    /\ UncompressedImages # {} =>
          /\ pc \in {"virt-sysprep", "virt-sparsify", "xz", "finish", "aborted"}
          /\ UncompressedImages = {image_path_from_spec(repo_dir, spec, FALSE)}
    /\ \A p \in DOMAIN uncompressed_infos :
          pc # "aborted" => p \in DOMAIN fs /\ fs[p].kind = "xz"

C6_Witness ==
    /\ pc = "virt-sparsify"
    /\ idx = 2
    /\ basename(specs[1]) # basename(specs[2])
    /\ UncompressedImages = {join(repo_dir, basename(specs[2]))}
    /\ join(repo_dir, basename(specs[1]) \o <<".", "xz">>) \in DOMAIN fs
    /\ join(repo_dir, basename(specs[1])) \notin DOMAIN fs

(***************************************************************************)
(* C7: a run creates, overwrites or deletes files only inside the output   *)
(* directory and leaves every spec file in place with its content, also    *)
(* when a spec file lies inside the output directory.                      *)
(***************************************************************************)
Changed(p) == p \notin DOMAIN fs \/ p \notin DOMAIN fs0 \/ fs[p] # fs0[p]

C7_SpecFilesUntouched ==
    pc \in {"done", "aborted"} =>
        /\ \A p \in DOMAIN fs \cup DOMAIN fs0 : Changed(p) => DirectlyInRepoDir(p)
        /\ \A i \in 1..Len(specs) : ~Changed(specs[i])

(***************************************************************************)
(* C8: what a successful run writes is gated by the format.  lago: the two *)
(* side files of each spec right after its build (before the next spec is  *)
(* built), then repo.metadata once, no index.  virt-builder: the index     *)
(* once, nothing else.  all: side files, repo.metadata, then the index.    *)
(***************************************************************************)
SideWrites(i) ==
    <<Event("write", join(repo_dir, basename(specs[i]) \o <<".", "metadata">>), TRUE),
      Event("write", join(repo_dir, basename(specs[i]) \o <<".", "hash">>), TRUE)>>

RECURSIVE PerSpecEffects(_, _)
PerSpecEffects(n, sides) ==
    IF n = 0 THEN <<>>
    ELSE PerSpecEffects(n - 1, sides)
            \o <<Event("unlink", join(repo_dir, basename(specs[n])), TRUE)>>
            \o (IF sides THEN SideWrites(n) ELSE <<>>)

ExpectedEffects ==
    CASE repo_format = "lago" ->
            PerSpecEffects(Len(specs), TRUE)
                \o <<Event("write", RepoMetadataPath, TRUE)>>
      [] repo_format = "virt-builder" ->
            PerSpecEffects(Len(specs), FALSE)
                \o <<Event("write", IndexPath, TRUE)>>
      [] repo_format = "all" ->
            PerSpecEffects(Len(specs), TRUE)
                \o <<Event("write", RepoMetadataPath, TRUE),
                     Event("write", IndexPath, TRUE)>>

C8_OutputsGatedByFormat ==
    pc = "done" =>
        SelectSeq(log, LAMBDA e : e.op \in {"unlink", "write"}) = ExpectedEffects

C8_Witness ==
    /\ pc = "done"
    /\ repo_format = "all"
    /\ Len(specs) = 2
    /\ specs[1] # specs[2]
    /\ Len(SelectSeq(log, LAMBDA e : e.op = "write")) = 6

(***************************************************************************)
(* C10: the block of every spec of a virt-builder or all run starts with   *)
(* the header [lago-B] and holds the line file=B.xz, B being the base file *)
(* name of the spec file; so specs with different base file names get      *)
(* different headers.                                                      *)
(***************************************************************************)
C10_SectionHeaderIsBaseName ==
    VirtBuilderDone =>
        /\ Len(IndexBlocks) = Len(specs)
        /\ \A i \in 1..Len(specs) :
              /\ IndexBlocks[i][1] = <<"[", "lago", "-">> \o basename(specs[i]) \o <<"]">>
              /\ Contains(IndexBlocks[i],
                          <<"file", "=">> \o basename(specs[i]) \o <<".", "xz">>)
        /\ \A i, j \in 1..Len(specs) :
              basename(specs[i]) # basename(specs[j]) =>
                  IndexBlocks[i][1] # IndexBlocks[j][1]

(***************************************************************************)
(* C9: when the index is generated again from the same specs at least one  *)
(* second of the clock after the first index, every revision number of the *)
(* second index is strictly greater than every revision number of the      *)
(* first.                                                                  *)
(***************************************************************************)
\* the number a two-digit token writes
DigitsValue(tok) == CHOOSE n \in 0..99 : TwoDigits(n) = tok

\* the revision numbers of an index text, each as its digits
RevisionsOf(text) ==
    {SubSeq(text[i], 3, Len(text[i])) :
        i \in {j \in 1..Len(text) :
                  Len(text[j]) > 2 /\ text[j][1] = "revision" /\ text[j][2] = "="}}

\* a < b for two numbers written without leading zeros
NumberLess(a, b) ==
    \/ Len(a) < Len(b)
    \/ /\ Len(a) = Len(b)
       /\ \E i \in 1..Len(a) :
             /\ \A j \in 1..(i - 1) : a[j] = b[j]
             /\ DigitsValue(a[i]) < DigitsValue(b[i])

C9_RevisionsIncrease ==
    (run = 2 /\ pc = "done") =>
        \A r1 \in RevisionsOf(prev_index), r2 \in RevisionsOf(fs[IndexPath].data) :
            NumberLess(r1, r2)

C9_Witness ==
    /\ run = 2
    /\ pc = "done"
    /\ Len(specs) = 2
    /\ Cardinality(RevisionsOf(prev_index)) = 2
    /\ \E r1 \in RevisionsOf(prev_index), r2 \in RevisionsOf(fs[IndexPath].data) :
          r1[2] = "16" /\ r2[2] = "17"

(***************************************************************************)
(* C11: when the index is generated, the lookup of a spec's facts by its   *)
(* compressed image path never fails, and the size and                     *)
(* uncompressed_checksum lines of the spec's block are the size and the    *)
(* SHA-512 captured for the image built from that same spec path, also     *)
(* when several spec paths of the run share a base file name.              *)
(***************************************************************************)
\* the bytes of the image built from a spec path, as they are when the
\* facts are captured (after virt-sysprep and virt-sparsify)
CapturedImageOf(spec_path) ==
    Wrap("virt-sparsify", Wrap("virt-sysprep", Wrap("qcow2", spec_path)))

C11_FactsOfSameSpecPath ==
    /\ error.kind # "KeyError"
    /\ VirtBuilderDone =>
          /\ Len(IndexBlocks) = Len(specs)
          /\ \A i \in 1..Len(specs) :
                /\ Contains(IndexBlocks[i],
                            <<"size", "=">> \o Wrap("size", CapturedImageOf(specs[i])))
                /\ Contains(IndexBlocks[i],
                            <<"uncompressed_checksum", "=">>
                                \o Wrap("sha512", CapturedImageOf(specs[i])))

====
